---- MODULE Spec2Model ----
(***************************************************************************)
(* Model of pkg/builder.go (package avp): the Builder that reads RTP from  *)
(* a track, reconstructs samples, queues them on the channel b.out and     *)
(* fans them out to the attached Elements.                                 *)
(*                                                                         *)
(* Processes:                                                              *)
(*   "build"   - goroutine b.build()   (ingest loop)                       *)
(*   "forward" - goroutine b.forward() (dispatch loop)                     *)
(*   "ext"     - a caller inside package avp that invokes b.stop(), any    *)
(*               number of times                                           *)
(* AttachElement and OnStop are short critical sections of other callers   *)
(* and are single actions.                                                 *)
(*                                                                         *)
(* b.mu is a sync.RWMutex.  Read sections (build's two flag reads, the     *)
(* whole body of forward's pass) change no shared state, so each is one    *)
(* action that requires that no writer holds the lock.  The write section  *)
(* of stop() is split in steps because build's channel send and forward's  *)
(* channel receive are performed WITHOUT the lock and can interleave with  *)
(* it.                                                                     *)
(***************************************************************************)
EXTENDS Integers, Sequences, FiniteSets, TLC

(* ------------------------------ bounds --------------------------------- *)
\* samples the receiver's packets complete within the modelled window
MaxSamples == 2
\* number of distinct Elements that callers may attach
MaxStages == 2
\* number of OnStop registrations
MaxOnStop == 1
\* samples one Push can make ready at once
MaxBurst == 1
\* the model explores channel capacities up to this bound
QueueBound == 1
(* ------------------------- program constants --------------------------- *)
\* const maxSize = 100
maxSize == 100
\* sequence is a uint16
SeqModulus == 65536

\* capacity of b.out: make(chan *Sample, maxSize), limited by QueueBound
Capacity == IF maxSize < QueueBound THEN maxSize ELSE QueueBound

\* samples an engine observed late in its life has already emitted and
\* dispatched: the next sample carries the largest uint16
LateBase == SeqModulus - 1

Stages == 1..MaxStages
\* Elements whose Write returns an error (always)
FaultyStages == {1}

Procs == {"build", "forward", "ext"}
Callers == {"build", "ext"}

\* the value a receive on the closed, drained channel yields: (*Sample)(nil)
NilSample == [id |-> -1, seq |-> 0]

VARIABLES
    stopped,        \* b.stopped
    onStopHandler,  \* b.onStopHandler: 0 is nil, h > 0 the h-th registered func
    elements,       \* b.elements: sequence of Stages, in attachment order
    sequence,       \* b.sequence (uint16)
    out,            \* b.out: the buffered samples, head first
    outClosed,      \* close(b.out) has been executed
    mu,             \* b.mu: "none" or the process holding the write lock
    pc,             \* position of each process
    pending,        \* samples ready inside b.builder (the samplebuilder)
    bsample,        \* build's local `sample`: TRUE when non-nil
    fsample,        \* forward's local `sample`
    base,           \* history: samples emitted and dispatched before the window
    emitted,        \* history: samples ever sent on b.out (never wraps)
    attachInfo,     \* history: per Stage, what had happened when it was attached
    lastRead,       \* history: "err" from a failed ReadRTP until the loop is back at its top
    binding,        \* the depacketizer and checker NewBuilder gave to samplebuilder
    log             \* history: the calls made on Elements, the handler and the channel

vars == <<stopped, onStopHandler, elements, sequence, out, outClosed, mu, pc,
          pending, bsample, fsample, base, emitted,
          attachInfo, lastRead, binding, log>>

(* ------------------------------ helpers -------------------------------- *)
Range(s) == {s[i] : i \in 1..Len(s)}

Ev(op, st, smp, err) == [op |-> op, st |-> st, id |-> smp.id, seq |-> smp.seq, err |-> err]

NoSample == [id |-> -2, seq |-> 0]

\* ids of the samples for which a fan-out pass has been made
PassedIds(lg) == {lg[i].id : i \in {j \in 1..Len(lg) : lg[j].op = "Dispatch"}}

\* ids of the samples that wait in b.out or are held by forward, and for which
\* no fan-out pass has been made yet
InflightIds ==
    ({out[i].id : i \in 1..Len(out)} \cup {fsample.id}) \ (PassedIds(log) \cup {-1, -2})

\* the program has crashed: an unrecovered panic in any goroutine ends it
Crashed == \E p \in Procs : pc[p] = "panic"

(* ------------------------------- Init ---------------------------------- *)
\* NewBuilder: the state right after construction, both goroutines started
InitAt(b) ==
    /\ stopped = FALSE
    /\ onStopHandler = 0
    /\ elements = <<>>
    /\ sequence = b % SeqModulus
    /\ out = <<>>
    /\ outClosed = FALSE
    /\ mu = "none"
    /\ pc = [p \in Procs |-> CASE p = "build" -> "check1"
                               [] p = "forward" -> "recv"
                               [] OTHER -> "idle"]
    /\ pending = 0
    /\ bsample = FALSE
    /\ fsample = NoSample
    /\ base = b
    /\ emitted = b
    /\ attachInfo = [s \in Stages |-> [attached |-> FALSE, afterStop |-> FALSE,
                                        emitted |-> 0, passed |-> {}, inflight |-> {}]]
    /\ lastRead = "none"
    /\ log = <<>>

\* the codec names NewBuilder knows, and one it does not know
Codecs == {"opus", "VP8", "VP9", "H264", "other"}

\* lines 39-53: the switch on track.Codec().Name; a variable that no case
\* assigns keeps its zero value, the nil interface
Depacketizer(codec) ==
    CASE codec = "opus" -> "OpusPacket"
      [] codec = "VP8" -> "VP8Packet"
      [] codec = "VP9" -> "VP9Packet"
      [] codec = "H264" -> "H264Packet"
      [] OTHER -> "nil"

Checker(codec) ==
    CASE codec = "opus" -> "OpusPartitionHeadChecker"
      [] codec = "VP8" -> "VP8PartitionHeadChecker"
      [] codec = "VP9" -> "VP9PartitionHeadChecker"
      [] OTHER -> "nil"

\* lines 55-63: samplebuilder.New(maxLate, depacketizer), and
\* WithPartitionHeadChecker(checker) when checker != nil
NewBinding(codec) ==
    [codec |-> codec, depacketizer |-> Depacketizer(codec), checker |-> Checker(codec)]

\* the track of the scenarios carries VP8
Init == InitAt(0) /\ binding = NewBinding("VP8")

\* the engine constructed for a track of any codec
InitCodec == InitAt(0) /\ \E c \in Codecs : binding = NewBinding(c)

\* the engine observed from construction, or from the point where LateBase
\* samples have been emitted and dispatched and nothing else has happened
InitLate == (\E b \in {0, LateBase} : InitAt(b)) /\ binding = NewBinding("VP8")

(* --------------------------- AttachElement ----------------------------- *)
\* The Elements whose Write succeeds differ only in name: they are taken for
\* attachment in the order of their names (a Stage that fails may be attached
\* before, between or after them).
AttachElement(e) ==
    /\ ~Crashed
    /\ mu = "none"
    /\ e \notin Range(elements)
    /\ e \notin FaultyStages =>
           \A f \in Stages \ FaultyStages : f < e => f \in Range(elements)
    /\ elements' = Append(elements, e)
    /\ attachInfo' = [attachInfo EXCEPT ![e] =
                        [attached |-> TRUE, afterStop |-> stopped, emitted |-> emitted,
                         passed |-> PassedIds(log), inflight |-> InflightIds]]
    /\ UNCHANGED <<stopped, onStopHandler, sequence, out, outClosed, mu, pc, pending,
                   bsample, fsample, base, emitted, log>>
    /\ UNCHANGED <<lastRead, binding>>

(* ------------------------------- OnStop -------------------------------- *)
OnStop ==
    /\ ~Crashed
    /\ mu = "none"
    /\ onStopHandler < MaxOnStop
    /\ onStopHandler' = onStopHandler + 1
    /\ UNCHANGED <<stopped, elements, sequence, out, outClosed, mu, pc, pending,
                   bsample, fsample, base, emitted, attachInfo, log>>
    /\ UNCHANGED <<lastRead, binding>>

(* ------------------------------- build --------------------------------- *)
NextSequenceSkip(n) == (n + 2) % SeqModulus

\* b.sequence++ on a uint16
NextSequence(n) == (n + 1) % SeqModulus

\* lines 93-98: read b.stopped under RLock; return when set
BuildCheck1 ==
    /\ ~Crashed
    /\ pc["build"] = "check1"
    /\ mu = "none"
    /\ pc' = [pc EXCEPT !["build"] = IF stopped THEN "done" ELSE "read"]
    /\ UNCHANGED <<stopped, onStopHandler, elements, sequence, out, outClosed, mu,
                   pending, bsample, fsample, base, emitted,
                   attachInfo, log>>
    /\ lastRead' = "none"
    /\ UNCHANGED binding

\* lines 100-105: ReadRTP returns io.EOF; the loop calls b.stop() and returns
BuildReadEOF ==
    /\ ~Crashed
    /\ pc["build"] = "read"
    /\ pc' = [pc EXCEPT !["build"] = "stop"]
    /\ UNCHANGED <<stopped, onStopHandler, elements, sequence, out, outClosed, mu,
                   pending, bsample, fsample, base, emitted,
                   attachInfo, log>>
    /\ UNCHANGED <<lastRead, binding>>

\* a loop that returns on any read error
BuildReadErrorReturns ==
    /\ ~Crashed
    /\ pc["build"] = "read"
    /\ pc' = [pc EXCEPT !["build"] = "done"]
    /\ lastRead' = "err"
    /\ UNCHANGED <<stopped, onStopHandler, elements, sequence, out, outClosed, mu,
                   pending, bsample, fsample, base, emitted, attachInfo, binding, log>>

\* lines 101, 106-107: any other read error is logged and the loop continues
BuildReadError ==
    /\ ~Crashed
    /\ pc["build"] = "read"
    /\ pc' = [pc EXCEPT !["build"] = "check1"]
    /\ UNCHANGED <<stopped, onStopHandler, elements, sequence, out, outClosed, mu,
                   pending, bsample, fsample, base, emitted,
                   attachInfo, log>>
    /\ lastRead' = "err"
    /\ UNCHANGED binding

\* lines 100, 110: a packet is read and pushed; it makes c samples ready
BuildReadPacket(c) ==
    /\ ~Crashed
    /\ pc["build"] = "read"
    /\ (emitted - base) + pending + c <= MaxSamples
    /\ pending' = pending + c
    /\ pc' = [pc EXCEPT !["build"] = "pop"]
    /\ UNCHANGED <<stopped, onStopHandler, elements, sequence, out, outClosed, mu,
                   bsample, fsample, base, emitted,
                   attachInfo, log>>
    /\ UNCHANGED <<lastRead, binding>>

\* line 114: PopWithTimestamp yields the oldest ready sample, or nil
BuildPop ==
    /\ ~Crashed
    /\ pc["build"] = "pop"
    /\ bsample' = (pending > 0)
    /\ pending' = IF pending > 0 THEN pending - 1 ELSE 0
    /\ pc' = [pc EXCEPT !["build"] = "check2"]
    /\ UNCHANGED <<stopped, onStopHandler, elements, sequence, out, outClosed, mu,
                   fsample, base, emitted, attachInfo, log>>
    /\ UNCHANGED <<lastRead, binding>>

\* lines 117-126: re-read b.stopped under RLock; return when set; leave the
\* inner loop when the sample is nil
BuildCheck2 ==
    /\ ~Crashed
    /\ pc["build"] = "check2"
    /\ mu = "none"
    /\ pc' = [pc EXCEPT !["build"] = IF stopped THEN "done"
                                      ELSE IF ~bsample THEN "check1" ELSE "send"]
    /\ UNCHANGED <<stopped, onStopHandler, elements, sequence, out, outClosed, mu,
                   pending, bsample, fsample, base, emitted,
                   attachInfo, log>>
    /\ UNCHANGED <<lastRead, binding>>

\* a channel that never blocks its sender
HasRoomAlways(q) == TRUE

\* a send on a buffered channel goes through when the buffer is not full
HasRoom(q) == Len(q) < Capacity

\* lines 128-134: b.out <- &Sample{SequenceNumber: b.sequence, ...}, outside
\* the lock.  A send on a closed channel panics (also when the sender was
\* blocked on the full channel at the time of the close); a send on a full
\* open channel blocks.
BuildSend ==
    /\ ~Crashed
    /\ pc["build"] = "send"
    /\ IF outClosed
         THEN /\ pc' = [pc EXCEPT !["build"] = "panic"]
              /\ UNCHANGED <<out, emitted>>
         ELSE /\ HasRoom(out)
              /\ out' = Append(out, [id |-> emitted, seq |-> sequence])
              /\ emitted' = emitted + 1
              /\ pc' = [pc EXCEPT !["build"] = "inc"]
    /\ UNCHANGED <<stopped, onStopHandler, elements, sequence, outClosed, mu,
                   pending, bsample, fsample, base,
                   attachInfo, log>>
    /\ UNCHANGED <<lastRead, binding>>

\* line 135: b.sequence++
BuildInc ==
    /\ ~Crashed
    /\ pc["build"] = "inc"
    /\ sequence' = NextSequence(sequence)
    /\ pc' = [pc EXCEPT !["build"] = "pop"]
    /\ UNCHANGED <<stopped, onStopHandler, elements, out, outClosed, mu,
                   pending, bsample, fsample, base, emitted,
                   attachInfo, log>>
    /\ UNCHANGED <<lastRead, binding>>

(* -------------------------------- stop --------------------------------- *)
\* where a caller is when it is about to execute b.stop()
EntryPc(p) == IF p = "build" THEN "stop" ELSE "idle"
\* where a caller is after b.stop() returned (build returns right after it)
ReturnPc(p) == IF p = "build" THEN "doneEOF" ELSE "idle"

CallerId(p) == IF p = "build" THEN 1 ELSE 2

\* the transition to stopped, with its caller and the handler registered then
StopEv(p) == [op |-> "Stop", st |-> CallerId(p), id |-> onStopHandler, seq |-> 0, err |-> FALSE]

AlreadyStoppedNever == FALSE

\* line 165: if b.stopped { return }
AlreadyStopped == stopped

\* lines 163-168: Lock; return when already stopped, else b.stopped = true
StopBegin(p) ==
    /\ ~Crashed
    /\ pc[p] = EntryPc(p)
    /\ mu = "none"
    /\ IF AlreadyStopped
         THEN /\ pc' = [pc EXCEPT ![p] = ReturnPc(p)]
              /\ UNCHANGED <<stopped, mu, log>>
         ELSE /\ stopped' = TRUE
              /\ mu' = p
              /\ log' = Append(log, StopEv(p))
              /\ pc' = [pc EXCEPT ![p] = "stopClose"]
    /\ UNCHANGED <<onStopHandler, elements, sequence, out, outClosed, pending,
                   bsample, fsample, base, emitted, attachInfo>>
    /\ UNCHANGED <<lastRead, binding>>

\* a loop that misses the last element
RECURSIVE CloseAllButLast(_, _)
CloseAllButLast(elems, lg) ==
    IF Len(elems) <= 1 THEN lg
    ELSE CloseAllButLast(Tail(elems), Append(lg, Ev("Close", Head(elems), NoSample, FALSE)))

\* lines 169-171: for _, e := range b.elements { e.Close() }
RECURSIVE CloseAll(_, _)
CloseAll(elems, lg) ==
    IF elems = <<>> THEN lg
    ELSE CloseAll(Tail(elems), Append(lg, Ev("Close", Head(elems), NoSample, FALSE)))

StopCloseElements(p) ==
    /\ ~Crashed
    /\ pc[p] = "stopClose"
    /\ log' = CloseAll(elements, log)
    /\ pc' = [pc EXCEPT ![p] = "stopHandler"]
    /\ UNCHANGED <<stopped, onStopHandler, elements, sequence, out, outClosed, mu,
                   pending, bsample, fsample, base, emitted,
                   attachInfo>>
    /\ UNCHANGED <<lastRead, binding>>

\* lines 172-174: if b.onStopHandler != nil { b.onStopHandler() }
StopHandler(p) ==
    /\ ~Crashed
    /\ pc[p] = "stopHandler"
    /\ log' = IF onStopHandler # 0
                THEN Append(log, Ev("Callback", onStopHandler, NoSample, FALSE))
                ELSE log
    /\ pc' = [pc EXCEPT ![p] = "stopOut"]
    /\ UNCHANGED <<stopped, onStopHandler, elements, sequence, out, outClosed, mu,
                   pending, bsample, fsample, base, emitted,
                   attachInfo>>
    /\ UNCHANGED <<lastRead, binding>>

\* line 175 and the deferred Unlock: close(b.out); closing a closed channel
\* panics
StopCloseOut(p) ==
    /\ ~Crashed
    /\ pc[p] = "stopOut"
    /\ IF outClosed
         THEN /\ pc' = [pc EXCEPT ![p] = "panic"]
              /\ UNCHANGED <<outClosed, mu, log>>
         ELSE /\ outClosed' = TRUE
              /\ log' = Append(log, Ev("CloseQueue", 0, NoSample, FALSE))
              /\ mu' = "none"
              /\ pc' = [pc EXCEPT ![p] = ReturnPc(p)]
    /\ UNCHANGED <<stopped, onStopHandler, elements, sequence, out, pending,
                   bsample, fsample, base, emitted, attachInfo>>
    /\ UNCHANGED <<lastRead, binding>>

(* ------------------------------- forward ------------------------------- *)
\* a receive that leaves the sample in the channel
RecvRestPeek(q) == q

\* what a receive leaves in the channel
RecvRest(q) == Tail(q)

\* line 143: sample := <-b.out, outside the lock.  Blocks on an empty open
\* channel; yields nil on a closed, drained one.
ForwardRecv ==
    /\ ~Crashed
    /\ pc["forward"] = "recv"
    /\ IF out # <<>>
         THEN /\ fsample' = Head(out)
              /\ out' = RecvRest(out)
         ELSE /\ outClosed
              /\ fsample' = NilSample
              /\ UNCHANGED out
    /\ pc' = [pc EXCEPT !["forward"] = "pass"]
    /\ UNCHANGED <<stopped, onStopHandler, elements, sequence, outClosed, mu,
                   pending, bsample, base, emitted,
                   attachInfo, log>>
    /\ UNCHANGED <<lastRead, binding>>

\* a pass that gives up at the first Write error
RECURSIVE WritePassAbort(_, _, _)
WritePassAbort(elems, smp, lg) ==
    IF elems = <<>> THEN lg
    ELSE IF Head(elems) \in FaultyStages
           THEN Append(lg, Ev("Write", Head(elems), smp, TRUE))
           ELSE WritePassAbort(Tail(elems), smp,
                               Append(lg, Ev("Write", Head(elems), smp, FALSE)))

\* a pass that walks the snapshot from its last element to its first
RECURSIVE WritePassReverse(_, _, _)
WritePassReverse(elems, smp, lg) ==
    IF elems = <<>> THEN lg
    ELSE WritePassReverse(SubSeq(elems, 1, Len(elems) - 1), smp,
                          Append(lg, Ev("Write", elems[Len(elems)], smp,
                                        elems[Len(elems)] \in FaultyStages)))

\* lines 151-156: for _, e := range elements { err := e.Write(sample); log on err }
RECURSIVE WritePass(_, _, _)
WritePass(elems, smp, lg) ==
    IF elems = <<>> THEN lg
    ELSE WritePass(Tail(elems), smp,
                   Append(lg, Ev("Write", Head(elems), smp, Head(elems) \in FaultyStages)))

SeesStoppedNever == FALSE

\* line 147: if b.stopped
SeesStopped == stopped

\* lines 145-157: RLock; snapshot b.elements; return when stopped; write the
\* sample to every element of the snapshot; RUnlock
ForwardPass ==
    /\ ~Crashed
    /\ pc["forward"] = "pass"
    /\ mu = "none"
    /\ IF SeesStopped
         THEN /\ pc' = [pc EXCEPT !["forward"] = "done"]
              /\ UNCHANGED log
         ELSE /\ log' = WritePass(elements, fsample,
                                  Append(log, Ev("Dispatch", 0, fsample, FALSE)))
              /\ pc' = [pc EXCEPT !["forward"] = "recv"]
    /\ fsample' = NoSample
    /\ UNCHANGED <<stopped, onStopHandler, elements, sequence, out, outClosed, mu,
                   pending, bsample, base, emitted, attachInfo>>
    /\ UNCHANGED <<lastRead, binding>>

(* -------------------------------- Next --------------------------------- *)
Next ==
    \/ \E e \in Stages : AttachElement(e)
    \/ OnStop
    \/ BuildCheck1
    \/ BuildReadEOF
    \/ BuildReadError
    \/ \E c \in 0..MaxBurst : BuildReadPacket(c)
    \/ BuildPop
    \/ BuildCheck2
    \/ BuildSend
    \/ BuildInc
    \/ \E p \in Callers : StopBegin(p)
    \/ \E p \in Callers : StopCloseElements(p)
    \/ \E p \in Callers : StopHandler(p)
    \/ \E p \in Callers : StopCloseOut(p)
    \/ ForwardRecv
    \/ ForwardPass

Spec == Init /\ [][Next]_vars

SpecLate == InitLate /\ [][Next]_vars

SpecCodec == InitCodec /\ [][Next]_vars

\* forward is a goroutine of its own: the Go scheduler runs it whenever it can
\* take a step (its receive can complete, or it can take the read lock)
SpecFair == Init /\ [][Next]_vars /\ WF_vars(ForwardRecv) /\ WF_vars(ForwardPass)

(* ======================= properties of the Builder ===================== *)
Idx(op) == {i \in 1..Len(log) : log[i].op = op}
WriteIdx(s) == {i \in Idx("Write") : log[i].st = s}
CloseIdx(s) == {i \in Idx("Close") : log[i].st = s}
\* the Stages that were attached when the engine made the transition to stopped
AttachedAtStop == {s \in Stages : attachInfo[s].attached /\ ~attachInfo[s].afterStop}
\* the fan-out passes made, in order
Dispatched == SelectSeq(log, LAMBDA e : e.op = "Dispatch")

\* C1: Close is called at most once on any Stage, and once teardown has run
\* to its end, exactly once on every Stage that was attached when the engine
\* stopped, also when the end-of-stream path of build and an external stop()
\* both trigger teardown.
C1_CloseExactlyOnce ==
    /\ \A s \in Stages : Cardinality(CloseIdx(s)) <= 1
    /\ outClosed => \A s \in AttachedAtStop : Cardinality(CloseIdx(s)) = 1

\* both triggers have run: the external caller made the transition, build saw
\* end-of-stream and returned from its own stop(), two Stages were attached
C1_Witness ==
    /\ pc["build"] = "doneEOF"
    /\ \E i \in Idx("Stop") : log[i].st = CallerId("ext")
    /\ outClosed
    /\ Cardinality(AttachedAtStop) = 2
    /\ \A s \in AttachedAtStop : Cardinality(CloseIdx(s)) = 1

\* C2: no Write is made on a Stage after Close was called on it, and no
\* fan-out pass and no Write at all follows the transition to stopped; the
\* dispatch loop leaves only when it has seen stopped.
C2_NoWriteAfterClose ==
    /\ \A i \in Idx("Close") : \A j \in WriteIdx(log[i].st) : j < i
    /\ \A i \in Idx("Stop") : \A j \in Idx("Write") \cup Idx("Dispatch") : j < i
    /\ pc["forward"] = "done" => stopped

\* a Stage was written to and then closed, and the dispatch loop has left
C2_Witness ==
    /\ pc["forward"] = "done"
    /\ \E s \in Stages : WriteIdx(s) # {} /\ CloseIdx(s) # {}

\* C3: after a teardown made by build's end-of-stream path, every sample
\* emitted has been written to every Stage that was attached from the start,
\* before that Stage was closed.
C3_AllDeliveredBeforeClose ==
    \A i \in Idx("Close") :
        ((\E k \in Idx("Stop") : log[k].st = CallerId("build"))
            /\ attachInfo[log[i].st].emitted = base)
        => \A x \in base..(emitted - 1) :
               \E j \in WriteIdx(log[i].st) : j < i /\ log[j].id = x

\* C4: build never stands at its channel send with the channel closed, and
\* the program never panics.
C4_NoSendOnClosedQueue ==
    /\ ~Crashed
    /\ ~(pc["build"] = "send" /\ outClosed)

\* C5 as claimed: the SequenceNumbers of the dispatched samples start at 0 and
\* each is the previous one plus 1.
C5_PlusOneNoWrap ==
    /\ (base = 0 /\ Len(Dispatched) > 0) => Dispatched[1].seq = 0
    /\ \A i \in 2..Len(Dispatched) : Dispatched[i].seq = Dispatched[i - 1].seq + 1

\* C5 amended: the SequenceNumbers of the dispatched samples start at 0 and
\* each is the previous one plus 1 modulo 2^16 (65535 is followed by 0).
C5_PlusOneModulo ==
    /\ (base = 0 /\ Len(Dispatched) > 0) => Dispatched[1].seq = 0
    /\ \A i \in 2..Len(Dispatched) :
           Dispatched[i].seq = (Dispatched[i - 1].seq + 1) % SeqModulus

\* the counter has wrapped between two dispatched samples
C5_Witness ==
    /\ Len(Dispatched) >= 2
    /\ Dispatched[1].seq = SeqModulus - 1
    /\ Dispatched[2].seq = 0

\* C6 as claimed: a Stage is written only samples that were sent on b.out
\* after it was attached.
C6_OnlyEmittedAfterAttach ==
    \A s \in Stages : \A j \in WriteIdx(s) : log[j].id >= attachInfo[s].emitted

\* C6 amended: a Stage is written only samples that were sent on b.out after
\* it was attached or that, when it was attached, were waiting in b.out or
\* held by the dispatch loop with their pass not yet made.
C6_EmittedAfterOrInflight ==
    \A s \in Stages : \A j \in WriteIdx(s) :
        \/ log[j].id >= attachInfo[s].emitted
        \/ log[j].id \in attachInfo[s].inflight

\* a Stage was written a sample that was in flight when it was attached
C6_Witness ==
    \E s \in Stages : \E j \in WriteIdx(s) :
        log[j].id < attachInfo[s].emitted /\ log[j].id \in attachInfo[s].inflight

\* C7: a Stage is written none of the samples whose pass had been made when
\* it was attached.
C7_NoneOfTheDispatched ==
    \A s \in Stages : \A j \in WriteIdx(s) : log[j].id \notin attachInfo[s].passed

\* a Stage attached after a pass had been made has been written a later sample
C7_Witness ==
    \E s \in Stages : attachInfo[s].passed # {} /\ WriteIdx(s) # {}

\* C8: the handler is called at most once; when teardown has run to its end
\* the handler that was registered at the transition to stopped has been
\* called exactly once; the call comes after the Close of every Stage attached
\* then and before close(b.out).
C8_CallbackOnce ==
    /\ Cardinality(Idx("Callback")) <= 1
    /\ \A k \in Idx("Stop") :
           (outClosed /\ log[k].id # 0) =>
               \E c \in Idx("Callback") : log[c].st = log[k].id
    /\ \A c \in Idx("Callback") :
           /\ \A s \in AttachedAtStop : \E i \in CloseIdx(s) : i < c
           /\ \A q \in Idx("CloseQueue") : c < q
           /\ \E k \in Idx("Stop") : k < c /\ log[k].id = log[c].st

\* teardown ran to its end with a handler registered and two Stages attached,
\* and build has returned from the stop() of its end-of-stream path
C8_Witness ==
    /\ outClosed
    /\ Cardinality(Idx("Callback")) = 1
    /\ Cardinality(AttachedAtStop) = 2
    /\ pc["build"] = "doneEOF"

\* C9: every sample for which a pass was made is written to every attached
\* Stage that was not attached after that pass, whether or not a Write on
\* another Stage failed; the dispatch loop leaves only when stopped is set.
C9_WriteErrorIsolated ==
    /\ \A s \in Range(elements) : \A i \in Idx("Dispatch") :
           \/ log[i].id \in attachInfo[s].passed
           \/ \E j \in WriteIdx(s) : j > i /\ log[j].id = log[i].id
    /\ pc["forward"] = "done" => stopped

\* the failing Stage is attached first, its Write failed, and the healthy
\* Stage was written the same sample after that; the loop goes on
C9_Witness ==
    /\ Len(elements) = 2
    /\ elements[1] \in FaultyStages
    /\ \E i \in WriteIdx(elements[1]) : \E j \in WriteIdx(elements[2]) :
           log[i].err /\ i < j /\ log[i].id = log[j].id /\ ~log[j].err
    /\ pc["forward"] = "recv"
    /\ ~stopped

C11_Backpressure ==
    /\ Len(out) <= Capacity
    /\ Capacity <= maxSize
    /\ (pc["build"] = "send" /\ Len(out) = Capacity /\ ~outClosed) => ~ENABLED BuildSend
    /\ (pc["build"] = "send" /\ Len(out) < Capacity /\ ~outClosed) => ENABLED BuildSend

\* build is blocked at its send on the full channel while forward has not yet
\* made its receive
C11_Witness ==
    /\ pc["build"] = "send"
    /\ Len(out) = Capacity
    /\ ~outClosed
    /\ pc["forward"] = "recv"

\* C12: stopped and the closed channel never revert; once the engine is
\* stopped and no teardown is in progress, a stop() returns without entering
\* a teardown: it makes no call on a Stage, the handler or the channel and
\* changes nothing of the engine; build's own stop() then just returns.
C12_StopIdempotent ==
    [][ /\ stopped => stopped'
        /\ outClosed => outClosed'
        /\ (stopped /\ mu = "none") =>
               /\ mu' = "none"
               /\ log' = log
               /\ pc'["ext"] = "idle"
        /\ (stopped /\ mu = "none" /\ pc["build"] = "stop" /\ pc'["build"] # "stop") =>
               /\ pc'["build"] = "doneEOF"
               /\ UNCHANGED <<stopped, onStopHandler, elements, sequence, out,
                              outClosed, mu, pending, emitted, log>>
      ]_vars

\* build has returned from a stop() that found the engine already stopped by
\* the external caller; there was one transition and one close of the channel
C12_Witness ==
    /\ pc["build"] = "doneEOF"
    /\ \A i \in Idx("Stop") : log[i].st = CallerId("ext")
    /\ Cardinality(Idx("Stop")) = 1
    /\ Cardinality(Idx("CloseQueue")) = 1

\* C13: a ReadRTP error other than io.EOF changes nothing of the engine and
\* takes build back to the top of its loop, from where, unless the engine was
\* stopped meanwhile, its next step is the next read; build calls stop() only
\* from a read, and not from one that failed this way.
C13_ReadErrorContinues ==
    [][ /\ (lastRead' = "err" /\ lastRead # "err") =>
               /\ pc["build"] = "read"
               /\ pc'["build"] = "check1"
               /\ UNCHANGED <<stopped, onStopHandler, elements, sequence, out,
                              outClosed, mu, pending, emitted, log>>
        /\ (lastRead = "err" /\ pc'["build"] # pc["build"]) =>
               /\ pc["build"] = "check1"
               /\ pc'["build"] = IF stopped THEN "done" ELSE "read"
        /\ (pc'["build"] = "stop" /\ pc["build"] # "stop") =>
               /\ pc["build"] = "read"
               /\ lastRead' # "err"
        /\ (pc'["build"] = "stopClose" /\ pc["build"] # "stopClose") =>
               pc["build"] = "stop"
      ]_vars

\* a read has failed after a sample was queued; the engine is not stopped and
\* build is back at the top of its loop
C13_Witness ==
    /\ lastRead = "err"
    /\ pc["build"] = "check1"
    /\ ~stopped
    /\ Len(out) > 0

\* C14: a teardown that has run to its end has closed b.out; no Write follows
\* the close; and from then on forward eventually reaches its return, whether
\* it was waiting at its receive or busy in a pass.
C14_ForwardTerminates ==
    /\ []((stopped /\ mu = "none") => outClosed)
    /\ [](\A q \in Idx("CloseQueue") : \A j \in Idx("Write") : j < q)
    /\ (outClosed ~> pc["forward"] = "done")

\* the number of Stages that were attached when the pass logged at index i
\* of the log was made: a Stage attached later recorded that pass as made
AttachedAtPass(i) ==
    Cardinality({j \in 1..Len(elements) : log[i].id \notin attachInfo[elements[j]].passed})

\* C15: the Writes of one pass directly follow its Dispatch in the log, one
\* per Stage attached at that moment, in attachment order, all with the
\* sample of the pass; nothing of another pass comes in between, and every
\* Write belongs to a pass.
C15_WriteInAttachOrder ==
    /\ \A i \in Idx("Dispatch") :
          /\ i + AttachedAtPass(i) <= Len(log)
          /\ \A j \in 1..AttachedAtPass(i) :
                /\ log[i + j].op = "Write"
                /\ log[i + j].st = elements[j]
                /\ log[i + j].id = log[i].id
          /\ (i + AttachedAtPass(i) < Len(log)) => log[i + AttachedAtPass(i) + 1].op # "Write"
    /\ \A w \in Idx("Write") :
          \E i \in Idx("Dispatch") : i < w /\ w <= i + AttachedAtPass(i)

\* two passes over two Stages whose attachment order is not their name order,
\* the second Stage attached between the passes
C15_Witness ==
    /\ Len(elements) = 2
    /\ elements[1] > elements[2]
    /\ \E i \in Idx("Dispatch") : AttachedAtPass(i) = 1
    /\ \E i \in Idx("Dispatch") : AttachedAtPass(i) = 2

\* C16: the reassembly of packets into samples, and with it the independence
\* of the emitted samples from the arrival order inside the lookahead window,
\* is the work of samplebuilder.Push and PopWithTimestamp (lines 110, 114), a
\* library outside this repository; no formula is stated for it.

\* C17: the binding of the engine is the one its codec name selects and stays
\* that; opus, VP8 and VP9 have a depacketizer and a checker, H264 has a
\* depacketizer and no checker, and any other name has a depacketizer (never
\* an absent one) and no checker.
C17_StrategySelection ==
    /\ binding = NewBinding(binding.codec)
    /\ binding.codec \in {"opus", "VP8", "VP9"} =>
          (binding.depacketizer # "nil" /\ binding.checker # "nil")
    /\ binding.codec = "H264" =>
          (binding.depacketizer # "nil" /\ binding.checker = "nil")
    /\ binding.codec \notin {"opus", "VP8", "VP9", "H264"} =>
          (binding.depacketizer # "nil" /\ binding.checker = "nil")

\* C18: whenever the engine is stopped and no teardown is running, Close has
\* been called on every Stage of b.elements; and b.elements changes only by
\* an append at its end.
C18_AllAttachedClosed ==
    /\ []((stopped /\ mu = "none") => \A s \in Range(elements) : CloseIdx(s) # {})
    /\ [][\E e \in Stages : elements' = Append(elements, e)]_elements

\* C19: b.sequence is the number of samples build has sent on b.out, modulo
\* 2^16, the increment of line 135 following each send that went through;
\* nothing but that increment changes it, the increment adds exactly 1 and
\* takes 65535 to 0, and a send that panics or has not happened adds nothing.
C19_CounterCountsEnqueues ==
    /\ [](sequence = (emitted - (IF pc["build"] = "inc" THEN 1 ELSE 0)) % SeqModulus)
    /\ [](base = 0 /\ emitted = 0 => sequence = 0)
    /\ [][ /\ (sequence' # sequence) =>
                 /\ pc["build"] = "inc"
                 /\ pc'["build"] # "inc"
                 /\ sequence' = IF sequence = SeqModulus - 1 THEN 0 ELSE sequence + 1
           /\ (pc["build"] = "inc" /\ pc'["build"] # "inc") => sequence' # sequence
           /\ (emitted' # emitted) =>
                 /\ emitted' = emitted + 1
                 /\ out' = Append(out, [id |-> emitted, seq |-> sequence])
                 /\ pc'["build"] = "inc" ]_vars

\* the counter has wrapped to 0 after the send of sample number 65535
C19_Witness ==
    /\ sequence = 0
    /\ emitted = SeqModulus
    /\ pc["build"] # "inc"

\* C20: no pass and no Write is ever made with the nil sample; when forward
\* holds the nil that a receive on the closed, drained channel gave it, the
\* engine is stopped and the channel closed, and the next step of forward is
\* its return, with nothing written.
C20_NilNeverWritten ==
    /\ [](\A i \in Idx("Write") \cup Idx("Dispatch") : log[i].id # NilSample.id)
    /\ []((fsample = NilSample) => (stopped /\ outClosed /\ pc["forward"] = "pass"))
    /\ [][(fsample = NilSample /\ pc'["forward"] # pc["forward"]) =>
              (pc'["forward"] = "done" /\ log' = log)]_vars

\* forward holds the nil of the closed channel after it has made a pass over
\* an attached Stage, and is about to take the read lock
C20_Witness ==
    /\ fsample = NilSample
    /\ pc["forward"] = "pass"
    /\ mu = "none"
    /\ Idx("Write") # {}
    /\ elements # <<>>

====
